---- MODULE Spec2Model ----
(***************************************************************************)
(* The NeuralSync AI bus (neuralsync-community/bus/ai_bus.py) as a state    *)
(* machine: the ConnectionManager's maps, one handler task per session,     *)
(* and one action per handler of AIBus.                                     *)
(*                                                                         *)
(* A session is named by its connection id; the websocket object of a      *)
(* session is identified with that id.  None and the empty string are both *)
(* written "" (the handlers only test truthiness of these fields).         *)
(*                                                                         *)
(* last, handed and delivered record the step just taken: the frame        *)
(* handled, the envelopes the handlers passed to send_message for each     *)
(* session, and the frames each channel accepted.  Clear drops the record  *)
(* before the next step, so a claim about one operation is read off the    *)
(* state right after it (or off the step itself, as an action formula).    *)
(***************************************************************************)
EXTENDS Integers, Sequences, FiniteSets, TLC

(* ------------------------------ bounds -------------------------------- *)
\* connection ids that can be live at once
NumSessions == 3
\* how many times the clock advances
MaxTicks == 2
\* frames one client sends ahead of the bus reading them
MaxFrames == 2
\* RateLimitMiddleware(calls=..., period=...): requests per window, and the
\* length of the window in steps of the store's clock
REST_CALLS == 2
REST_PERIOD == 2
\* requests of one address in dispatch at the same time, and in all
NumRequests == 2
MaxRequests == 5
\* NEURALSYNC_RATE_LIMIT, as configured for the model
MAX_MESSAGES_PER_MINUTE == 2
\* NEURALSYNC_MAX_CONNECTIONS, as configured for the model
MAX_CONNECTIONS_PER_IP == 2

(* ------------------------- program constants -------------------------- *)
\* is_rate_limited: minute_ago = now - 60
WINDOW == 60
\* websocket.close(code=1008, ...)
POLICY_VIOLATION == 1008

ClockStep == WINDOW \div 2

Sessions == 1..NumSessions
NoSession == 0
Names == {"A", "B"}
NameInputs == Names \cup {""}
IPs == {"ip1", "ip2"}
\* <<content, correlation_id>> pairs a client may send
Payloads == {<<"", "">>, <<"x", "k1">>, <<"y", "">>}
TOKEN == "secret"

ENABLE_RATE_LIMITING == TRUE

MessageType ==
    {"agent_register", "agent_deregister", "direct_message", "broadcast",
     "ping", "pong", "error", "ack", "system"}

VARIABLES
    connections,     \* ConnectionManager.connections: the ids held
    agents,          \* ConnectionManager.agents: records in dict (insertion) order
    ip_connections,  \* ConnectionManager.ip_connections: ip -> set of ids
    message_rates,   \* ConnectionManager.message_rates: name -> timestamps
    redis_client,    \* whether ConnectionManager.redis_client is set
    api_token,       \* API_TOKEN ("" = no authentication)
    now,             \* time.time()
    pc,              \* where each session's handle_connection task stands
    chan,            \* whether the remote end of each session's channel is open
    remote_address,  \* websocket.remote_address[0] of each live session
    close_code,      \* the code the bus closed each session with (0: it did not)
    handed,          \* envelopes passed to send_message per session in the last step
    delivered,       \* frames each session's channel accepted during the last step
    last,            \* the last step taken: the operation and its inputs
    release_todo,    \* names a suspended deregister_connection has yet to remove
    mailbox,         \* frames in arrival order per session, and the sends they caused
    relay,           \* the minimal relay (bus/ai_bus.py) fed the same events
    last_ping,       \* AgentInfo.last_ping of each record of agents, by name
    rest             \* the REST API: the rate_limit:<ip> key and the requests in dispatch

vars ==
    <<connections, agents, ip_connections, message_rates, redis_client, api_token,
      now, pc, chan, remote_address, close_code, handed, delivered, last,
      release_todo, mailbox, relay, last_ping, rest>>

(* ------------------------------ helpers ------------------------------- *)
\* the step record: op, the session it ran on, and the frame's fields
\* (fault: the redis call that raised during the step, "" for none;
\* note: what the step wrote to the log, "" for nothing of interest)
Op(op, s, name, to, content, cid, fault) ==
    [op |-> op, s |-> s, name |-> name, to |-> to, content |-> content, cid |-> cid,
     fault |-> fault, note |-> ""]

NoOp == Op("none", NoSession, "", "", "", "", "")

NoFrames == [s \in Sessions |-> <<>>]

\* nothing passed to send_message, nothing on any channel
NoDelivery == [handed |-> NoFrames, delivered |-> NoFrames]

\* no frame waiting on any session, none handled yet
NoMail == [queue |-> NoFrames, sent |-> [s \in Sessions |-> 0], handled |-> NoFrames,
           stream |-> NoFrames, arrived |-> NoFrames]

\* the relay as it starts: connected = {}, no handler running
NoRelay == [connected |-> [x \in {} |-> 0], name |-> [s \in Sessions |-> ""],
            task |-> [s \in Sessions |-> "none"], sent |-> NoFrames]

\* the REST API as it starts: no rate_limit key in the store (val = 0), no
\* request in dispatch
NoRequests == [val |-> 0, ttl |-> 0, pc |-> [r \in 1..NumRequests |-> "idle"],
               answer |-> [r \in 1..NumRequests |-> 0], started |-> 0]

\* BusMessage as it is serialised on the wire (asdict + json.dumps)
BusMessage(type, from, to, content, cid, agent, count, names) ==
    [type |-> type, from |-> from, to |-> to, content |-> content, cid |-> cid,
     agent |-> agent, count |-> count, names |-> names]

\* dict helpers over the ordered list of AgentInfo records
HasKey(ags, n) == \E i \in 1..Len(ags) : ags[i].name = n

DictPop(ags, n) == SelectSeq(ags, LAMBDA r : r.name # n)

\* self.agents[n] = AgentInfo(...): in place for a key held, else at the end
DictSet(ags, n, ws) ==
    IF HasKey(ags, n)
    THEN [ags EXCEPT ![CHOOSE i \in 1..Len(ags) : ags[i].name = n] =
                         [name |-> n, websocket |-> ws]]
    ELSE Append(ags, [name |-> n, websocket |-> ws])

EmptyMap == [x \in {} |-> 0]

MapPop(f, k) == [x \in (DOMAIN f) \ {k} |-> f[x]]

MapSet(f, k, v) == [x \in (DOMAIN f) \cup {k} |-> IF x = k THEN v ELSE f[x]]

(* ------------------------- ConnectionManager --------------------------- *)
\* (mutant) the cap is compared with > : one connection too many is admitted
register_connection_over(s, ip) ==
    LET ipc == IF ip \in DOMAIN ip_connections THEN ip_connections
               ELSE MapSet(ip_connections, ip, {})
    IN  IF Cardinality(ipc[ip]) > MAX_CONNECTIONS_PER_IP
        THEN [ok |-> FALSE, connections |-> connections, ip_connections |-> ipc]
        ELSE [ok |-> TRUE, connections |-> connections \cup {s},
              ip_connections |-> [ipc EXCEPT ![ip] = @ \cup {s}]]

\* (mutant) a refused connection is stored in the session map all the same
register_connection_leaky(s, ip) ==
    LET ipc == IF ip \in DOMAIN ip_connections THEN ip_connections
               ELSE MapSet(ip_connections, ip, {})
    IN  IF Cardinality(ipc[ip]) >= MAX_CONNECTIONS_PER_IP
        THEN [ok |-> FALSE, connections |-> connections \cup {s}, ip_connections |-> ipc]
        ELSE [ok |-> TRUE, connections |-> connections \cup {s},
              ip_connections |-> [ipc EXCEPT ![ip] = @ \cup {s}]]

\* register_connection: the result and the maps as it leaves them
register_connection(s, ip) ==
    LET ipc == IF ip \in DOMAIN ip_connections THEN ip_connections
               ELSE MapSet(ip_connections, ip, {})
    IN  IF Cardinality(ipc[ip]) >= MAX_CONNECTIONS_PER_IP
        THEN [ok |-> FALSE, connections |-> connections, ip_connections |-> ipc]
        ELSE [ok |-> TRUE, connections |-> connections \cup {s},
              ip_connections |-> [ipc EXCEPT ![ip] = @ \cup {s}]]

get_agent_websocket(ags, n) ==
    IF HasKey(ags, n)
    THEN (CHOOSE r \in {ags[i] : i \in 1..Len(ags)} : r.name = n).websocket
    ELSE NoSession

RECURSIVE get_all_agent_names(_)
get_all_agent_names(ags) ==
    IF ags = <<>> THEN <<>>
    ELSE <<Head(ags).name>> \o get_all_agent_names(Tail(ags))

\* deregister_agent: hdelFails says whether redis hdel raises
deregister_agent(ags, n, hdelFails) ==
    IF ~HasKey(ags, n) THEN [result |-> "false", agents |-> ags]
    ELSE IF redis_client /\ hdelFails
         THEN [result |-> "raised", agents |-> DictPop(ags, n)]
         ELSE [result |-> "true", agents |-> DictPop(ags, n)]

\* register_agent: hdelFails / hsetFails say whether the redis calls raise
register_agent(ags, s, n, hdelFails, hsetFails) ==
    IF s \notin connections THEN [result |-> "false", agents |-> ags]
    ELSE LET d == deregister_agent(ags, n, hdelFails) IN
         IF d.result = "raised" THEN d
         ELSE IF redis_client /\ hsetFails
              THEN [result |-> "raised", agents |-> DictSet(d.agents, n, s)]
              ELSE [result |-> "true", agents |-> DictSet(d.agents, n, s)]

\* register_agent's warning "already registered, updating connection": whether
\* the record it replaces was on the registering session or on another one
already_registered(ags, s, n) ==
    IF ~HasKey(ags, n) THEN ""
    ELSE IF get_agent_websocket(ags, n) = s THEN "own" ELSE "other"

\* (mutant) every name of the registry is collected, whatever its websocket
agents_to_remove_all(ags, ws) == get_all_agent_names(ags)

\* the names deregister_connection collects, in dict order
agents_to_remove(ags, ws) ==
    get_all_agent_names(SelectSeq(ags, LAMBDA r : r.websocket = ws))

RECURSIVE deregister_all(_, _, _)
\* the loop of deregister_connection; failAt = k > 0: the k-th hdel raises
deregister_all(ags, todo, failAt) ==
    IF todo = <<>> THEN [result |-> "true", agents |-> ags]
    ELSE LET d == deregister_agent(ags, Head(todo), failAt = 1) IN
         IF d.result = "raised" THEN d
         ELSE deregister_all(d.agents, Tail(todo), failAt - 1)

\* (mutant) the connection is dropped but the records on it are left behind
deregister_connection_keep(s, failAt) ==
    [result |-> "true", agents |-> agents, connections |-> connections \ {s},
     ip_connections |-> ip_connections]

\* deregister_connection: the maps as it leaves them, and whether it raised
deregister_connection(s, failAt) ==
    LET d   == deregister_all(agents, agents_to_remove(agents, s), failAt)
        ip  == remote_address[s]
        ipc == IF ip \in DOMAIN ip_connections
               THEN IF ip_connections[ip] \ {s} = {}
                    THEN MapPop(ip_connections, ip)
                    ELSE [ip_connections EXCEPT ![ip] = @ \ {s}]
               ELSE ip_connections
    IN  IF d.result = "raised"
        THEN [result |-> "raised", agents |-> d.agents, connections |-> connections,
              ip_connections |-> ip_connections]
        ELSE [result |-> "true", agents |-> d.agents, connections |-> connections \ {s},
              ip_connections |-> ipc]

RECURSIVE release_run(_, _)
\* the loop of deregister_connection from one suspension to the next: a name
\* that is no longer in the registry costs no await (deregister_agent returns
\* False at once); the first name that is there is popped, whatever session its
\* record is on, and the task then waits for the hdel of that name
release_run(ags, todo) ==
    IF todo = <<>> THEN [agents |-> ags, todo |-> <<>>, waiting |-> FALSE]
    ELSE IF ~HasKey(ags, Head(todo)) THEN release_run(ags, Tail(todo))
    ELSE IF redis_client
         THEN [agents |-> DictPop(ags, Head(todo)), todo |-> Tail(todo), waiting |-> TRUE]
         ELSE release_run(DictPop(ags, Head(todo)), Tail(todo))

\* (mutant) a timestamp exactly WINDOW seconds old is still counted
Prune_inclusive(w, t) == SelectSeq(w, LAMBDA x : x >= t - WINDOW)

\* the timestamps is_rate_limited keeps at time t
Prune(w, t) == SelectSeq(w, LAMBDA x : x > t - WINDOW)

\* (mutant) the attempt is recorded even when it is rejected
is_rate_limited_append(rates, n, t) ==
    LET w == Prune(IF n \in DOMAIN rates THEN rates[n] ELSE <<>>, t) IN
    [limited |-> Len(w) >= MAX_MESSAGES_PER_MINUTE, rates |-> MapSet(rates, n, Append(w, t))]

\* is_rate_limited at time t: the answer and message_rates as it leaves them
is_rate_limited(rates, n, t) ==
    IF ~ENABLE_RATE_LIMITING THEN [limited |-> FALSE, rates |-> rates]
    ELSE LET w == Prune(IF n \in DOMAIN rates THEN rates[n] ELSE <<>>, t) IN
         IF Len(w) >= MAX_MESSAGES_PER_MINUTE
         THEN [limited |-> TRUE, rates |-> MapSet(rates, n, w)]
         ELSE [limited |-> FALSE, rates |-> MapSet(rates, n, Append(w, t))]

(* -------------------------------- AIBus -------------------------------- *)
\* (mutant) an encoder that writes a MessageType member as its string
json_dumps_str(m) == [ok |-> TRUE, text |-> m]

\* json.dumps of a dict: the type of a BusMessage is a member of the Enum
\* MessageType, which json cannot encode (TypeError); the handshake replies are
\* dicts of strings and encode as they are
json_dumps(m) == [ok |-> m.type \notin MessageType, text |-> m]

\* send_message: json.dumps(asdict(message)), then websocket.send; the TypeError
\* of the encoder and the ConnectionClosed of a closed channel are both swallowed
send_message(d, ws, m) ==
    LET message_json == json_dumps(m) IN
    [handed |-> [d.handed EXCEPT ![ws] = Append(@, m)],
     delivered |-> IF message_json.ok /\ chan[ws] = "open"
                   THEN [d.delivered EXCEPT ![ws] = Append(@, message_json.text)]
                   ELSE d.delivered]

\* (mutant) the error envelope is built without from_agent = "bus"
send_error_anon(d, ws, text) ==
    send_message(d, ws, BusMessage("error", "", "", text, "", "", 0, <<>>))

send_error(d, ws, text) ==
    send_message(d, ws, BusMessage("error", "bus", "", text, "", "", 0, <<>>))

RECURSIVE send_each(_, _, _, _)
\* one send_message per record of ags whose name is not exclude, in dict order
send_each(d, ags, exclude, m) ==
    IF ags = <<>> THEN d
    ELSE send_each(IF Head(ags).name # exclude
                   THEN send_message(d, Head(ags).websocket, m) ELSE d,
                   Tail(ags), exclude, m)

broadcast_system_message(d, ags, event, agent, exclude) ==
    send_each(d, ags, exclude, BusMessage("system", "bus", "", event, "", agent, 0, <<>>))

\* what the first frame of a session can be when a token is configured
\* (timeout: no frame within the 30 seconds of wait_for)
AuthKinds == {"ok", "mismatch", "not_json", "not_object", "timeout"}

\* websocket.send(json.dumps({...})): a handshake reply, a dict of strings
websocket_send(d, ws, type, text) ==
    LET message_json == json_dumps(BusMessage(type, "", "", text, "", "", 0, <<>>)) IN
    [handed |-> d.handed,
     delivered |-> IF message_json.ok /\ chan[ws] = "open"
                   THEN [d.delivered EXCEPT ![ws] = Append(@, message_json.text)]
                   ELSE d.delivered]

\* authenticate_connection on the first frame: its result and the reply sent;
\* valid JSON that is not an object has no .get: AttributeError, caught nowhere
authenticate_connection(s, kind) ==
    IF api_token = "" THEN [result |-> "true", out |-> NoDelivery]
    ELSE IF kind \in {"timeout", "not_json"}
    THEN [result |-> "false",
          out |-> websocket_send(NoDelivery, s, "auth_error",
                                 "Authentication timeout or invalid format")]
    ELSE IF kind = "not_object"
    THEN [result |-> "raised", out |-> NoDelivery]
    ELSE IF kind = "ok"
    THEN [result |-> "true",
          out |-> websocket_send(NoDelivery, s, "auth_success", "Authentication successful")]
    ELSE [result |-> "false",
          out |-> websocket_send(NoDelivery, s, "auth_error", "Authentication failed")]

\* handle_agent_register: the registry and the frames sent
handle_agent_register(s, n, fault) ==
    IF n = ""
    THEN [agents |-> agents,
          out |-> send_error(NoDelivery, s, "Agent name is required for registration")]
    ELSE LET r == register_agent(agents, s, n, fault = "hdel", fault = "hset") IN
         IF r.result = "raised"
         THEN [agents |-> r.agents,
               out |-> send_error(NoDelivery, s, "Internal error processing message")]
         ELSE IF r.result = "true"
         THEN [agents |-> r.agents,
               out |-> broadcast_system_message(
                          send_message(NoDelivery, s,
                              BusMessage("ack", "bus", n, "registered", "", n, 0,
                                         get_all_agent_names(r.agents))),
                          r.agents, "agent_joined", n, n)]
         ELSE [agents |-> r.agents,
               out |-> send_error(NoDelivery, s, "Failed to register agent")]

\* handle_agent_deregister: the registry and the frames sent
handle_agent_deregister(s, n, fault) ==
    IF n = ""
    THEN [agents |-> agents,
          out |-> send_error(NoDelivery, s, "Agent name is required for deregistration")]
    ELSE LET r == deregister_agent(agents, n, fault = "hdel") IN
         IF r.result = "raised"
         THEN [agents |-> r.agents,
               out |-> send_error(NoDelivery, s, "Internal error processing message")]
         ELSE IF r.result = "true"
         THEN [agents |-> r.agents,
               out |-> broadcast_system_message(NoDelivery, r.agents, "agent_left", n, n)]
         ELSE [agents |-> r.agents, out |-> NoDelivery]

\* the envelope handle_direct_message forwards to the target
direct_envelope(from, to, content, cid) ==
    BusMessage("direct_message", from, to, content, cid, "", 0, <<>>)

\* (mutant) the target is looked up before the rate check, so a message for
\* an unknown agent is rejected without touching the sender's window
handle_direct_message_lookup_first(s, from, to, content, cid) ==
    IF from = "" \/ to = "" \/ content = ""
    THEN [rates |-> message_rates,
          out |-> send_error(NoDelivery, s,
                     "Direct message requires from_agent, to_agent, and content")]
    ELSE IF get_agent_websocket(agents, to) = NoSession
    THEN [rates |-> message_rates, out |-> send_error(NoDelivery, s, "Agent not found")]
    ELSE LET r == is_rate_limited(message_rates, from, now) IN
         IF r.limited
         THEN [rates |-> r.rates, out |-> send_error(NoDelivery, s, "Rate limit exceeded")]
         ELSE [rates |-> r.rates,
               out |-> send_message(
                          send_message(NoDelivery, get_agent_websocket(agents, to),
                              direct_envelope(from, to, content, cid)),
                          s,
                          BusMessage("ack", "bus", from, "delivered", cid, to, 0, <<>>))]

\* handle_direct_message: the rate windows and the frames sent
handle_direct_message(s, from, to, content, cid) ==
    IF from = "" \/ to = "" \/ content = ""
    THEN [rates |-> message_rates,
          out |-> send_error(NoDelivery, s,
                     "Direct message requires from_agent, to_agent, and content")]
    ELSE LET r == is_rate_limited(message_rates, from, now) IN
         IF r.limited
         THEN [rates |-> r.rates, out |-> send_error(NoDelivery, s, "Rate limit exceeded")]
         ELSE LET target_websocket == get_agent_websocket(agents, to) IN
              IF target_websocket = NoSession
              THEN [rates |-> r.rates, out |-> send_error(NoDelivery, s, "Agent not found")]
              ELSE [rates |-> r.rates,
                    out |-> send_message(
                               send_message(NoDelivery, target_websocket,
                                   direct_envelope(from, to, content, cid)),
                               s,
                               BusMessage("ack", "bus", from, "delivered", cid, to, 0,
                                          <<>>))]

\* the records the fan-out of handle_broadcast sends to
Recipients(ags, from) == SelectSeq(ags, LAMBDA r : r.name # from)

\* handle_broadcast: the rate windows and the frames sent
handle_broadcast(s, from, content) ==
    IF from = "" \/ content = ""
    THEN [rates |-> message_rates,
          out |-> send_error(NoDelivery, s, "Broadcast requires from_agent and content")]
    ELSE LET r == is_rate_limited(message_rates, from, now) IN
         IF r.limited
         THEN [rates |-> r.rates, out |-> send_error(NoDelivery, s, "Rate limit exceeded")]
         ELSE LET delivered_count == Len(Recipients(agents, from)) IN
              [rates |-> r.rates,
               out |-> send_message(
                          send_each(NoDelivery, agents, from,
                              BusMessage("broadcast", from, "", content, "", "", 0, <<>>)),
                          s,
                          BusMessage("ack", "bus", from, "broadcast", "", "",
                                     delivered_count, <<>>))]

\* last_ping of the records after a step that left the registry as ags:
\* AgentInfo(...) is built with last_ping = time.time() for the names stored in
\* the step (fresh); the other records keep theirs, and a popped record takes
\* its last_ping with it
stamp(lp, ags, fresh, t) ==
    [n \in {ags[i].name : i \in 1..Len(ags)} |->
        IF n \in DOMAIN lp /\ n \notin fresh THEN lp[n] ELSE t]

\* (mutant) the stamp is written whether or not the name is registered
update_agent_ping_create(lp, ags, n, t) == IF n # "" THEN MapSet(lp, n, t) ELSE lp

\* handle_ping's `if agent_name:` and update_agent_ping at time t
update_agent_ping(lp, ags, n, t) ==
    IF n # "" /\ HasKey(ags, n) THEN MapSet(lp, n, t) ELSE lp

\* handle_ping: the pong
handle_ping(s, n) ==
    send_message(NoDelivery, s, BusMessage("pong", "bus", n, "timestamp", "", "", 0, <<>>))

\* frames handle_message answers itself
BadKinds == {"malformed", "unknown", "pong", "error", "ack", "system"}

\* handle_message for a frame that reaches no handler
handle_message_other(s, kind) ==
    IF kind \in MessageType
    THEN send_error(NoDelivery, s, "Unknown message type")
    ELSE send_error(NoDelivery, s, "Invalid message format")

(* ------------------------------- actions ------------------------------- *)
Init ==
    /\ connections = {}
    /\ agents = <<>>
    /\ ip_connections = EmptyMap
    /\ message_rates = EmptyMap
    /\ redis_client = TRUE
    /\ api_token = ""
    /\ now = 0
    /\ pc = [s \in Sessions |-> "idle"]
    /\ chan = [s \in Sessions |-> "closed"]
    /\ remote_address = [s \in Sessions |-> ""]
    /\ close_code = [s \in Sessions |-> 0]
    /\ handed = NoFrames
    /\ delivered = NoFrames
    /\ last = NoOp
    /\ release_todo = NoFrames
    /\ mailbox = NoMail
    /\ relay = NoRelay
    /\ last_ping = EmptyMap
    /\ rest = NoRequests

\* the bus started with NEURALSYNC_API_TOKEN set
InitAuth ==
    /\ connections = {}
    /\ agents = <<>>
    /\ ip_connections = EmptyMap
    /\ message_rates = EmptyMap
    /\ redis_client = TRUE
    /\ api_token = TOKEN
    /\ now = 0
    /\ pc = [s \in Sessions |-> "idle"]
    /\ chan = [s \in Sessions |-> "closed"]
    /\ remote_address = [s \in Sessions |-> ""]
    /\ close_code = [s \in Sessions |-> 0]
    /\ handed = NoFrames
    /\ delivered = NoFrames
    /\ last = NoOp
    /\ release_todo = NoFrames
    /\ mailbox = NoMail
    /\ relay = NoRelay
    /\ last_ping = EmptyMap
    /\ rest = NoRequests

\* the record of the previous step has been dropped
Ready == last = NoOp

\* handle_connection up to the handshake: admit, or close with 1008 and return
ConnectBus(s, ip) ==
    /\ Ready
    /\ pc[s] = "idle"
    /\ LET r == register_connection(s, ip) IN
       /\ connections' = r.connections
       /\ ip_connections' = r.ip_connections
       /\ IF r.ok
          THEN /\ pc' = [pc EXCEPT ![s] = IF api_token # "" THEN "auth" ELSE "loop"]
               /\ chan' = [chan EXCEPT ![s] = "open"]
               /\ remote_address' = [remote_address EXCEPT ![s] = ip]
               /\ close_code' = [close_code EXCEPT ![s] = 0]
               /\ last' = Op("connect", s, "", "", ip, "", "")
          ELSE /\ pc' = [pc EXCEPT ![s] = "rejected"]
               /\ close_code' = [close_code EXCEPT ![s] = POLICY_VIOLATION]
               /\ UNCHANGED <<chan, remote_address>>
               /\ last' = Op("reject", s, "", "", ip, "", "")
    /\ handed' = NoFrames
    /\ delivered' = NoFrames
    /\ UNCHANGED <<agents, message_rates, redis_client, api_token, now>>
    /\ UNCHANGED <<release_todo, mailbox>>
    /\ UNCHANGED last_ping
    /\ UNCHANGED rest

\* Connect on the bus alone: the relay is not running
Connect(s, ip) == ConnectBus(s, ip) /\ UNCHANGED relay

\* time.time() moves on
Tick ==
    /\ Ready
    /\ now + ClockStep <= MaxTicks * ClockStep
    /\ now' = now + ClockStep
    /\ handed' = NoFrames
    /\ delivered' = NoFrames
    /\ last' = Op("tick", NoSession, "", "", "", "", "")
    /\ UNCHANGED <<connections, agents, ip_connections, message_rates, redis_client,
                   api_token, pc, chan, remote_address, close_code>>
    /\ UNCHANGED <<release_todo, mailbox, relay>>
    /\ UNCHANGED last_ping
    /\ UNCHANGED rest

\* handle_connection at the handshake: into the receive loop, or close with
\* 1008 and return, or the exception leaves the task; neither exit releases
Authenticate(s, kind) ==
    /\ Ready
    /\ pc[s] = "auth"
    /\ chan[s] = "open"
    /\ LET a == authenticate_connection(s, kind) IN
       /\ handed' = a.out.handed
       /\ delivered' = a.out.delivered
       /\ pc' = [pc EXCEPT ![s] = IF a.result = "true" THEN "loop" ELSE "done"]
       /\ chan' = [chan EXCEPT ![s] = IF a.result = "true" THEN "open" ELSE "closed"]
       /\ close_code' =
              [close_code EXCEPT ![s] = IF a.result = "false" THEN POLICY_VIOLATION ELSE @]
    /\ last' = Op("auth", s, "", "", kind, "", "")
    /\ UNCHANGED <<connections, agents, ip_connections, message_rates, redis_client,
                   api_token, now, remote_address>>
    /\ UNCHANGED <<release_todo, mailbox, relay>>
    /\ UNCHANGED last_ping
    /\ UNCHANGED rest

\* the remote end is gone during the handshake: websocket.recv() raises
\* ConnectionClosed, which authenticate_connection does not catch
AuthAbort(s) ==
    /\ Ready
    /\ pc[s] = "auth"
    /\ chan[s] = "closed"
    /\ pc' = [pc EXCEPT ![s] = "done"]
    /\ handed' = NoFrames
    /\ delivered' = NoFrames
    /\ last' = Op("auth", s, "", "", "closed", "", "")
    /\ UNCHANGED <<connections, agents, ip_connections, message_rates, redis_client,
                   api_token, now, chan, remote_address, close_code>>
    /\ UNCHANGED <<release_todo, mailbox, relay>>
    /\ UNCHANGED last_ping
    /\ UNCHANGED rest

\* the remote end closes or breaks the channel; the task has not noticed yet
DisconnectBus(s) ==
    /\ Ready
    /\ pc[s] \in {"auth", "loop"}
    /\ chan[s] = "open"
    /\ chan' = [chan EXCEPT ![s] = "closed"]
    /\ handed' = NoFrames
    /\ delivered' = NoFrames
    /\ last' = Op("disconnect", s, "", "", "", "", "")
    /\ UNCHANGED <<connections, agents, ip_connections, message_rates, redis_client,
                   api_token, now, pc, remote_address, close_code>>
    /\ UNCHANGED <<release_todo, mailbox>>
    /\ UNCHANGED last_ping
    /\ UNCHANGED rest

\* Disconnect on the bus alone: the relay is not running
Disconnect(s) == DisconnectBus(s) /\ UNCHANGED relay

\* the receive loop ends with ConnectionClosed; finally: deregister_connection
TeardownBus(s, failAt) ==
    /\ Ready
    /\ pc[s] = "loop"
    /\ chan[s] = "closed"
    /\ failAt \in 0..Len(agents_to_remove(agents, s))
    /\ failAt > 0 => redis_client
    /\ LET r == deregister_connection(s, failAt) IN
       /\ agents' = r.agents
       /\ connections' = r.connections
       /\ ip_connections' = r.ip_connections
       /\ pc' = [pc EXCEPT ![s] = IF r.result = "raised" THEN "done" ELSE "idle"]
       /\ remote_address' =
              [remote_address EXCEPT ![s] = IF r.result = "raised" THEN @ ELSE ""]
       /\ last' = Op("release", s, "", "", "", "",
                     IF r.result = "raised" THEN "hdel" ELSE "")
    /\ handed' = NoFrames
    /\ delivered' = NoFrames
    /\ UNCHANGED <<message_rates, redis_client, api_token, now, chan, close_code>>
    /\ UNCHANGED <<release_todo, mailbox>>
    /\ last_ping' = stamp(last_ping, deregister_connection(s, failAt).agents, {}, now)
    /\ UNCHANGED rest

\* Teardown on the bus alone: the relay is not running
Teardown(s, failAt) == TeardownBus(s, failAt) /\ UNCHANGED relay

\* deregister_connection up to its next suspension r: either it waits for an
\* hdel with the rest of agents_to_remove still to do, or the loop is over and
\* the connection and its address entry are dropped
ReleaseTo(s, r) ==
    /\ agents' = r.agents
    /\ release_todo' = [release_todo EXCEPT ![s] = r.todo]
    /\ IF r.waiting
       THEN /\ pc' = [pc EXCEPT ![s] = "releasing"]
            /\ UNCHANGED <<connections, ip_connections, remote_address>>
       ELSE /\ pc' = [pc EXCEPT ![s] = "idle"]
            /\ connections' = deregister_connection(s, 0).connections
            /\ ip_connections' = deregister_connection(s, 0).ip_connections
            /\ remote_address' = [remote_address EXCEPT ![s] = ""]
    /\ handed' = NoFrames
    /\ delivered' = NoFrames
    /\ UNCHANGED <<message_rates, redis_client, api_token, now, chan, close_code,
                   mailbox, relay>>
    /\ last_ping' = stamp(last_ping, r.agents, {}, now)
    /\ UNCHANGED rest

\* the receive loop ends; finally: deregister_connection collects the names of
\* the session and runs until its first await
ReleaseBegin(s) ==
    /\ Ready
    /\ pc[s] = "loop"
    /\ chan[s] = "closed"
    /\ LET r == release_run(agents, agents_to_remove(agents, s)) IN
       /\ ReleaseTo(s, r)
       /\ last' = [Op("release_step", s, "", "", "", "", "")
                      EXCEPT !.note = IF r.waiting THEN "waiting" ELSE "finished"]

\* the hdel a release waits for returns, or raises out of deregister_connection
ReleaseResume(s, hdelFails) ==
    /\ Ready
    /\ pc[s] = "releasing"
    /\ IF hdelFails
       THEN /\ pc' = [pc EXCEPT ![s] = "done"]
            /\ release_todo' = [release_todo EXCEPT ![s] = <<>>]
            /\ last' = [Op("release_step", s, "", "", "", "", "hdel")
                           EXCEPT !.note = "raised"]
            /\ handed' = NoFrames
            /\ delivered' = NoFrames
            /\ UNCHANGED <<connections, agents, ip_connections, message_rates,
                           redis_client, api_token, now, chan, remote_address,
                           close_code, mailbox, relay, last_ping, rest>>
       ELSE LET r == release_run(agents, release_todo[s]) IN
            /\ ReleaseTo(s, r)
            /\ last' = [Op("release_step", s, "", "", "", "", "")
                           EXCEPT !.note = IF r.waiting THEN "waiting" ELSE "finished"]

\* the session's task is in `async for message in websocket`
Receiving(s) == Ready /\ pc[s] = "loop" /\ chan[s] = "open"

\* the text a client puts in its k-th frame: its own numbering of what it sends
Label(s, k) == ToString(s) \o "." \o ToString(k)

\* a client writes its next direct_message; the frame waits in the websocket's
\* buffer until the receive loop of its session comes round to it
Arrive(s, from, to) ==
    /\ Receiving(s)
    /\ mailbox.sent[s] < MaxFrames
    /\ LET k == mailbox.sent[s] + 1
           f == [seq |-> k, from |-> from, to |-> to, content |-> Label(s, k),
                 cid |-> Label(s, k)]
       IN  /\ mailbox' = [mailbox EXCEPT !.sent[s] = k, !.queue[s] = Append(@, f)]
           /\ last' = Op("arrive", s, from, to, f.content, f.cid, "")
    /\ handed' = NoFrames
    /\ delivered' = NoFrames
    /\ UNCHANGED <<connections, agents, ip_connections, message_rates, redis_client,
                   api_token, now, pc, chan, remote_address, close_code, release_todo,
                   relay>>
    /\ UNCHANGED last_ping
    /\ UNCHANGED rest

\* (mutant) the receive loop takes the newest waiting frame
next_frame_last(q) == Len(q)

\* `async for message in websocket`: the position of the frame the loop yields
next_frame(q) == 1

\* one turn of the receive loop: the frame the iterator yields is handled to
\* the end (handle_message is awaited) before the next one is taken
Process(s) ==
    /\ Receiving(s)
    /\ mailbox.queue[s] # <<>>
    /\ LET q == mailbox.queue[s]
           i == next_frame(q)
           f == q[i]
           h == handle_direct_message(s, f.from, f.to, f.content, f.cid)
       IN  /\ message_rates' = h.rates
           /\ handed' = h.out.handed
           /\ delivered' = h.out.delivered
           /\ mailbox' = [mailbox EXCEPT
                  !.queue[s] = SubSeq(q, 1, i - 1) \o SubSeq(q, i + 1, Len(q)),
                  !.handled[s] = Append(@, f.seq),
                  !.stream = [w \in Sessions |-> @[w] \o h.out.handed[w]],
                  !.arrived = [w \in Sessions |-> @[w] \o h.out.delivered[w]]]
           /\ last' = Op("direct_message", s, f.from, f.to, f.content, f.cid, "")
    /\ UNCHANGED <<connections, agents, ip_connections, redis_client, api_token, now,
                   pc, chan, remote_address, close_code, release_todo, relay>>
    /\ UNCHANGED last_ping
    /\ UNCHANGED rest

\* what every frame handler leaves alone
FrameUnchanged ==
    UNCHANGED <<connections, ip_connections, redis_client, api_token, now, pc, chan,
                remote_address, close_code, release_todo, mailbox, rest>>

RegisterBus(s, n, fault) ==
    /\ Receiving(s)
    /\ fault = "hdel" => redis_client /\ n # "" /\ HasKey(agents, n)
    /\ fault = "hset" => redis_client /\ n # ""
    /\ LET h == handle_agent_register(s, n, fault) IN
       /\ agents' = h.agents
       /\ handed' = h.out.handed
       /\ delivered' = h.out.delivered
    /\ last' = [Op("agent_register", s, n, "", "", "", fault)
                   EXCEPT !.note = already_registered(agents, s, n)]
    /\ UNCHANGED message_rates
    /\ FrameUnchanged
    /\ last_ping' = stamp(last_ping, handle_agent_register(s, n, fault).agents, {n}, now)

\* Register on the bus alone: the relay is not running
Register(s, n, fault) == RegisterBus(s, n, fault) /\ UNCHANGED relay

Deregister(s, n, fault) ==
    /\ Receiving(s)
    /\ fault = "hdel" => redis_client /\ n # "" /\ HasKey(agents, n)
    /\ LET h == handle_agent_deregister(s, n, fault) IN
       /\ agents' = h.agents
       /\ handed' = h.out.handed
       /\ delivered' = h.out.delivered
    /\ last' = Op("agent_deregister", s, n, "", "", "", fault)
    /\ UNCHANGED message_rates
    /\ FrameUnchanged
    /\ UNCHANGED relay
    /\ last_ping' = stamp(last_ping, handle_agent_deregister(s, n, fault).agents, {}, now)

DirectBus(s, from, to, p) ==
    /\ Receiving(s)
    /\ LET h == handle_direct_message(s, from, to, p[1], p[2]) IN
       /\ message_rates' = h.rates
       /\ handed' = h.out.handed
       /\ delivered' = h.out.delivered
    /\ last' = Op("direct_message", s, from, to, p[1], p[2], "")
    /\ UNCHANGED agents
    /\ FrameUnchanged
    /\ UNCHANGED last_ping

\* Direct on the bus alone: the relay is not running
Direct(s, from, to, p) == DirectBus(s, from, to, p) /\ UNCHANGED relay

Broadcast(s, from, p) ==
    /\ Receiving(s)
    /\ LET h == handle_broadcast(s, from, p[1]) IN
       /\ message_rates' = h.rates
       /\ handed' = h.out.handed
       /\ delivered' = h.out.delivered
    /\ last' = Op("broadcast", s, from, "", p[1], p[2], "")
    /\ UNCHANGED agents
    /\ FrameUnchanged
    /\ UNCHANGED relay
    /\ UNCHANGED last_ping

Ping(s, n) ==
    /\ Receiving(s)
    /\ handed' = handle_ping(s, n).handed
    /\ delivered' = handle_ping(s, n).delivered
    /\ last' = Op("ping", s, n, "", "", "", "")
    /\ UNCHANGED <<agents, message_rates>>
    /\ FrameUnchanged
    /\ UNCHANGED relay
    /\ last_ping' = update_agent_ping(last_ping, agents, n, now)

BadFrame(s, kind) ==
    /\ Receiving(s)
    /\ handed' = handle_message_other(s, kind).handed
    /\ delivered' = handle_message_other(s, kind).delivered
    /\ last' = Op("bad", s, "", "", kind, "", "")
    /\ UNCHANGED <<agents, message_rates>>
    /\ FrameUnchanged
    /\ UNCHANGED relay
    /\ UNCHANGED last_ping

\* the record of the last step is dropped before the next one is taken
ClearBus ==
    /\ last # NoOp
    /\ last' = NoOp
    /\ handed' = NoFrames
    /\ delivered' = NoFrames
    /\ UNCHANGED <<connections, agents, ip_connections, message_rates, redis_client,
                   api_token, now, pc, chan, remote_address, close_code>>
    /\ UNCHANGED <<release_todo, mailbox>>
    /\ UNCHANGED last_ping
    /\ UNCHANGED rest

\* Clear on the bus alone: the relay is not running
Clear == ClearBus /\ UNCHANGED relay

\* the address each connection id of the routing scenarios comes from
IpOf(s) == IF s = 1 THEN "ip1" ELSE "ip2"

(* ------------------- the minimal relay (bus/ai_bus.py) ------------------ *)
\* handler, first frame: name = j.get("name"); connected[name] = ws; the ACK
\* is a plain dict, which json.dumps encodes
relay_register(rl, s, n) ==
    IF n = ""
    THEN [rl EXCEPT !.task[s] = "ended"]
    ELSE [rl EXCEPT !.name[s] = n, !.connected = MapSet(@, n, s), !.task[s] = "loop",
                    !.sent[s] = <<[from |-> "bus", message |-> "ACK"]>>]

\* handler, finally: the entry under the handler's name is deleted, whichever
\* websocket it holds by now
relay_finally(rl, s) ==
    [rl EXCEPT !.connected = IF rl.name[s] # "" /\ rl.name[s] \in DOMAIN rl.connected
                             THEN MapPop(@, rl.name[s]) ELSE @]

\* handler, one frame of the loop: forward to connected[target]; a send on a
\* closed websocket raises, which ends the sender's handler through finally
relay_forward(rl, s, to, message) ==
    IF to = "" \/ to \notin DOMAIN rl.connected THEN rl
    ELSE IF chan[rl.connected[to]] = "open"
         THEN [rl EXCEPT !.sent[rl.connected[to]] =
                             <<[from |-> rl.name[s], message |-> message]>>]
         ELSE [relay_finally(rl, s) EXCEPT !.task[s] = "ended"]

\* the relay's lookup of a name (NoSession for none)
relay_lookup(rl, n) == IF n \in DOMAIN rl.connected THEN rl.connected[n] ELSE NoSession

\* a client connects: both servers start a handler for it
RelayConnect(s) ==
    /\ ConnectBus(s, IpOf(s))
    /\ relay' = [relay EXCEPT !.task[s] = "recv", !.name[s] = "", !.sent = NoFrames]

\* connect-with-name: the first frame of the session names the agent
RelayRegister(s, n) ==
    /\ relay.task[s] = "recv"
    /\ RegisterBus(s, n, "")
    /\ relay' = relay_register([relay EXCEPT !.sent = NoFrames], s, n)

\* forward-to-named-target: the named agent sends to another name
RelayForward(s, to, p) ==
    /\ relay.task[s] = "loop"
    /\ DirectBus(s, relay.name[s], to, p)
    /\ relay' = relay_forward([relay EXCEPT !.sent = NoFrames], s, to, p[1])

\* the client goes away; neither server has noticed yet
RelayDisconnect(s) ==
    /\ DisconnectBus(s)
    /\ relay' = [relay EXCEPT !.sent = NoFrames]

\* both servers notice the closed websocket and run their finally blocks
RelayClose(s) ==
    /\ TeardownBus(s, 0)
    /\ relay' = [(IF relay.task[s] \in {"recv", "loop"}
                   THEN relay_finally(relay, s) ELSE relay)
                     EXCEPT !.task[s] = "none", !.name[s] = "", !.sent = NoFrames]

RelayClear ==
    /\ ClearBus
    /\ relay' = [relay EXCEPT !.sent = NoFrames]

(* ------------- the REST API's RateLimitMiddleware (main.py) ------------ *)
\* redis GET of the key: its value, 0 for a key that is not there (None)
store_get(rs) == rs.val

\* redis INCR: a key that is not there is created with value 1 and no expiry
\* (ttl = 0); an existing key keeps the expiry it has
store_incr(rs) ==
    IF rs.val = 0 THEN [rs EXCEPT !.val = 1, !.ttl = 0] ELSE [rs EXCEPT !.val = @ + 1]

\* redis SETEX key period value
store_setex(rs, period, value) == [rs EXCEPT !.val = value, !.ttl = period]

\* the store's clock moves one step: a key whose expiry is reached is deleted
store_expire(rs) ==
    IF rs.ttl = 1 THEN [rs EXCEPT !.val = 0, !.ttl = 0] ELSE [rs EXCEPT !.ttl = @ - 1]

\* the REST API shares nothing with the bus
RestFrame ==
    UNCHANGED <<connections, agents, ip_connections, message_rates, redis_client,
                api_token, now, pc, chan, remote_address, close_code, handed,
                delivered, last, release_todo, mailbox, relay, last_ping>>

\* dispatch up to its second await: current = await redis_client.get(key); on a
\* value at the limit the request is answered 429, otherwise it goes on to
\* incr (a value was read) or to setex (none was)
Dispatch(r) ==
    /\ rest.pc[r] = "idle"
    /\ rest.started < MaxRequests
    /\ LET current == store_get(rest) IN
       rest' = [rest EXCEPT
                   !.started = @ + 1,
                   !.answer[r] = IF current # 0 /\ current >= REST_CALLS THEN 429 ELSE 0,
                   !.pc[r] = IF current = 0 THEN "setex"
                             ELSE IF current >= REST_CALLS THEN "idle" ELSE "incr"]
    /\ RestFrame

\* await redis_client.incr(key); return await call_next(request)
DispatchIncr(r) ==
    /\ rest.pc[r] = "incr"
    /\ rest' = [store_incr(rest) EXCEPT !.pc[r] = "idle", !.answer[r] = 200]
    /\ RestFrame

\* await redis_client.setex(key, self.period, 1); return await call_next(request)
DispatchSetex(r) ==
    /\ rest.pc[r] = "setex"
    /\ rest' = [store_setex(rest, REST_PERIOD, 1) EXCEPT !.pc[r] = "idle", !.answer[r] = 200]
    /\ RestFrame

\* time passes in the store while a key with an expiry is there
StoreTick ==
    /\ rest.val > 0
    /\ rest.ttl > 0
    /\ rest' = store_expire(rest)
    /\ RestFrame

(* --------------------------- specifications ---------------------------- *)
\* the frames the sessions in their receive loops may send
Frames ==
    \/ \E s \in Sessions, n \in NameInputs, f \in {"", "hdel", "hset"} : Register(s, n, f)
    \/ \E s \in Sessions, n \in NameInputs, f \in {"", "hdel"} : Deregister(s, n, f)
    \/ \E s \in Sessions, a \in NameInputs, b \in NameInputs, p \in Payloads :
          Direct(s, a, b, p)
    \/ \E s \in Sessions, a \in NameInputs, p \in Payloads : Broadcast(s, a, p)
    \/ \E s \in Sessions, n \in NameInputs : Ping(s, n)
    \/ \E s \in Sessions, k \in BadKinds : BadFrame(s, k)

Lifecycle ==
    \/ \E s \in Sessions : Connect(s, IpOf(s))
    \/ \E s \in Sessions : Disconnect(s)
    \/ \E s \in Sessions, k \in 0..Cardinality(Names) : Teardown(s, k)

Next == Clear \/ Lifecycle \/ Frames

\* clients on up to NumSessions connections, within one reading of the clock
Spec == Init /\ [][Next]_vars
\* clients on two connections that register and send, with the clock moving
RateSessions == {1, 2}

RateNext ==
    \/ Clear
    \/ Tick
    \/ \E s \in RateSessions : Connect(s, IpOf(s))
    \/ \E s \in RateSessions, n \in NameInputs : Register(s, n, "")
    \/ \E s \in RateSessions, a \in NameInputs, b \in NameInputs, p \in Payloads :
          Direct(s, a, b, p)
    \/ \E s \in RateSessions, a \in NameInputs, p \in Payloads : Broadcast(s, a, p)

SpecRate == Init /\ [][RateNext]_vars

\* connections from either address, so that an address reaches its cap
QuotaNext ==
    \/ Clear
    \/ \E s \in Sessions, ip \in IPs : Connect(s, ip)
    \/ \E s \in Sessions : Disconnect(s)
    \/ \E s \in Sessions, k \in 0..Cardinality(Names) : Teardown(s, k)
    \/ \E s \in Sessions, n \in Names : Register(s, n, "")
    \/ \E s \in Sessions, n \in Names : Ping(s, n)

SpecQuota == Init /\ [][QuotaNext]_vars

\* a bus with a token configured: every session starts with the handshake
AuthNext ==
    \/ Clear
    \/ \E s \in Sessions : Connect(s, IpOf(s))
    \/ \E s \in Sessions, k \in AuthKinds : Authenticate(s, k)
    \/ \E s \in Sessions : AuthAbort(s)
    \/ \E s \in Sessions : Disconnect(s)
    \/ \E s \in Sessions, k \in 0..Cardinality(Names) : Teardown(s, k)
    \/ \E s \in Sessions, n \in Names : Register(s, n, "")
    \/ \E s \in Sessions, a \in Names, b \in Names : Direct(s, a, b, <<"x", "k1">>)

SpecAuth == InitAuth /\ [][AuthNext]_vars

\* a release that other tasks run into: while deregister_connection waits for
\* an hdel the event loop handles the frames of the other sessions (each frame
\* handler here runs with its own redis calls returning at once)
AsyncNext ==
    \/ Clear
    \/ \E s \in Sessions : Connect(s, IpOf(s))
    \/ \E s \in Sessions : Disconnect(s)
    \/ \E s \in Sessions : ReleaseBegin(s)
    \/ \E s \in Sessions, f \in BOOLEAN : ReleaseResume(s, f)
    \/ \E s \in Sessions, n \in Names : Register(s, n, "")
    \/ \E s \in Sessions, n \in Names : Deregister(s, n, "")

SpecAsync == Init /\ [][AsyncNext]_vars

\* the name the client on a connection sends its messages under
SenderName(s) == IF s = 1 THEN "A" ELSE "B"

\* clients that write frames faster than the bus reads them
OrderNext ==
    \/ Clear
    \/ \E s \in RateSessions : Connect(s, IpOf(s))
    \/ \E s \in RateSessions, n \in Names : Register(s, n, "")
    \/ \E s \in RateSessions, b \in Names : Arrive(s, SenderName(s), b)
    \/ \E s \in RateSessions : Process(s)

SpecOrder == Init /\ [][OrderNext]_vars

\* the bus and the minimal relay fed the same connects, names, forwards and
\* disconnects
RelayNext ==
    \/ RelayClear
    \/ \E s \in Sessions : RelayConnect(s)
    \/ \E s \in Sessions, n \in Names : RelayRegister(s, n)
    \/ \E s \in Sessions, b \in Names : RelayForward(s, b, <<"x", "k1">>)
    \/ \E s \in Sessions : RelayDisconnect(s)
    \/ \E s \in Sessions : RelayClose(s)

SpecRelay == Init /\ [][RelayNext]_vars

\* agents that register and ping while the clock moves
PingNext ==
    \/ Clear
    \/ Tick
    \/ \E s \in RateSessions : Connect(s, IpOf(s))
    \/ \E s \in RateSessions, n \in Names : Register(s, n, "")
    \/ \E s \in RateSessions, n \in Names : Deregister(s, n, "")
    \/ \E s \in RateSessions, n \in NameInputs : Ping(s, n)

SpecPing == Init /\ [][PingNext]_vars

\* requests from one address reach the REST API, concurrently, while its key
\* may expire
RestNext ==
    \/ \E r \in 1..NumRequests : Dispatch(r)
    \/ \E r \in 1..NumRequests : DispatchIncr(r)
    \/ \E r \in 1..NumRequests : DispatchSetex(r)
    \/ StoreTick

SpecRest == Init /\ [][RestNext]_vars

(* ------------------------- reading the record -------------------------- *)
\* how many frames of a type a session's channel accepted in the last step
Got(d, s, type) == Len(SelectSeq(d[s], LAMBDA m : m.type = type))

\* the frames of a type a session's channel accepted in the last step
GotSeq(d, s, type) == SelectSeq(d[s], LAMBDA m : m.type = type)

\* a session received exactly one frame, an error
OnlyAnError(d, s) == Len(d[s]) = 1 /\ d[s][1].type = "error" /\ d[s][1].from = "bus"

RateLimitError(d, s) ==
    \E i \in 1..Len(d[s]) : d[s][i].type = "error" /\ d[s][i].content = "Rate limit exceeded"

\* how many records the registry holds for a name
Records(ags, n) == Len(SelectSeq(ags, LAMBDA r : r.name = n))

NameSet(ags) == {ags[i].name : i \in 1..Len(ags)}

HeldBy(ags, s) == {ags[i].name : i \in {j \in 1..Len(ags) : ags[j].websocket = s}}

\* the session the registry holds for a name (NoSession for none)
HolderOf(ags, n) ==
    IF \E i \in 1..Len(ags) : ags[i].name = n
    THEN ags[CHOOSE i \in 1..Len(ags) : ags[i].name = n].websocket
    ELSE NoSession

\* the window of a name as is_rate_limited finds it
WindowOf(rates, n) == IF n \in DOMAIN rates THEN rates[n] ELSE <<>>

\* how many of the recorded sends lie less than WINDOW seconds before t
Recent(w, t) == Cardinality({i \in 1..Len(w) : t - w[i] < WINDOW})

\* the step just recorded handled a send frame with all its fields present
IsSend(l) ==
    \/ l.op = "direct_message" /\ l.name # "" /\ l.to # "" /\ l.content # ""
    \/ l.op = "broadcast" /\ l.name # "" /\ l.content # ""

(* -------------------------------- claims ------------------------------- *)
\* C1 (as claimed, for a target whose channel is open): a DIRECT_MESSAGE from A
\* to a registered agent B with non-empty content that passes the rate check
\* puts exactly one direct_message (from A, to B, same content, same
\* correlation_id) on B's session and exactly one ack on the sender's session,
\* and nothing on any other session.
DirectDelivered(l, d, b) ==
    /\ Got(d, b, "direct_message") = 1
    /\ GotSeq(d, b, "direct_message")[1] =
          BusMessage("direct_message", l.name, l.to, l.content, l.cid, "", 0, <<>>)
    /\ Got(d, l.s, "ack") = 1
    /\ GotSeq(d, l.s, "ack")[1].from = "bus"
    /\ Len(d[b]) = (IF b = l.s THEN 2 ELSE 1)
    /\ Len(d[l.s]) = (IF b = l.s THEN 2 ELSE 1)
    /\ \A o \in Sessions \ {b, l.s} : d[o] = <<>>

DirectToRegistered(l) ==
    /\ l.op = "direct_message" /\ l.name # "" /\ l.content # ""
    /\ HolderOf(agents, l.to) # NoSession
    /\ Recent(WindowOf(message_rates, l.name), now) < MAX_MESSAGES_PER_MINUTE

C1_Original ==
    [][(DirectToRegistered(last')
          /\ chan[HolderOf(agents, last'.to)] = "open") =>
          DirectDelivered(last', delivered', HolderOf(agents, last'.to))]_vars

\* C2 (as claimed): a DIRECT_MESSAGE to a name that is not registered puts
\* exactly one error on the sender's session, no ack, nothing on any other
\* session, and leaves the registry as it was.
C2_Original ==
    [][(last'.op = "direct_message" /\ HolderOf(agents, last'.to) = NoSession) =>
          /\ OnlyAnError(delivered', last'.s)
          /\ Got(delivered', last'.s, "ack") = 0
          /\ \A o \in Sessions \ {last'.s} : delivered'[o] = <<>>
          /\ agents' = agents]_vars

\* C3 (as claimed): at most one record per name, and the name set follows the
\* registrations and removals: a registration adds its name, AGENT_DEREGISTER
\* removes its name, the close of a session removes the names it held, and
\* nothing else changes the set.
C3Step ==
    /\ \A n \in Names : Records(agents', n) <= 1
    /\ NameSet(agents') =
          IF last'.op = "agent_register" /\ last'.name # ""
          THEN NameSet(agents) \cup {last'.name}
          ELSE IF last'.op = "agent_deregister"
          THEN NameSet(agents) \ {last'.name}
          ELSE IF last'.op = "release"
          THEN NameSet(agents) \ HeldBy(agents, last'.s)
          ELSE NameSet(agents)

C3_Original == [][C3Step]_vars

\* C4 (as claimed): when a session registers a name another session holds, the
\* name resolves to the registering session afterwards, with exactly one record.
C4_Original ==
    [][(/\ last'.op = "agent_register"
        /\ last'.name # ""
        /\ HolderOf(agents, last'.name) \notin {NoSession, last'.s}) =>
          /\ HolderOf(agents', last'.name) = last'.s
          /\ Records(agents', last'.name) = 1]_vars

\* C5 (as claimed): after the release of a session no record references it and
\* its id is in neither the session map nor any address's quota set.
C5_Original ==
    last.op = "release" =>
        /\ HeldBy(agents, last.s) = {}
        /\ last.s \notin connections
        /\ \A ip \in DOMAIN ip_connections : last.s \notin ip_connections[ip]

\* a session's channel accepted a system agent_left event for name n
GotLeft(d, s, n) ==
    \E i \in 1..Len(d[s]) :
        d[s][i].type = "system" /\ d[s][i].content = "agent_left" /\ d[s][i].agent = n

\* C6 (as claimed): when a session holding names closes, every agent that
\* remains registered (on an open channel) receives a system agent_left event
\* for each name the release removed.
C6_Original ==
    [][last'.op = "release" =>
          \A i \in 1..Len(agents') :
              chan[agents'[i].websocket] = "open" =>
                  \A n \in NameSet(agents) \ NameSet(agents') :
                      GotLeft(delivered', agents'[i].websocket, n)]_vars

\* C7: the session of every record is one the connection manager holds.
C7_RecordsHeld == \A i \in 1..Len(agents) : agents[i].websocket \in connections

\* C7 witness: a session has been released while records of other sessions remain.
C7_Witness ==
    /\ last.op = "release"
    /\ last.fault = ""
    /\ last.s \notin connections
    /\ agents # <<>>

\* C8 (as claimed): at a send (direct_message or broadcast with its fields
\* present) under a name with MAX_MESSAGES_PER_MINUTE sends recorded less than
\* WINDOW seconds ago, the sender gets only the error "Rate limit exceeded"; at
\* a send made WINDOW seconds or more after the oldest recorded send, the send
\* is accepted and recorded.
C8_Original ==
    [][IsSend(last') =>
          LET w == WindowOf(message_rates, last'.name)
              v == WindowOf(message_rates', last'.name)
          IN  /\ Recent(w, now) >= MAX_MESSAGES_PER_MINUTE =>
                    /\ OnlyAnError(delivered', last'.s)
                    /\ RateLimitError(delivered', last'.s)
              /\ (w # <<>> /\ now - w[1] >= WINDOW) =>
                    /\ ~RateLimitError(delivered', last'.s)
                    /\ v # <<>>
                    /\ v[Len(v)] = now]_vars

\* C9 (as claimed): a send rejected for rate limiting records no timestamp (the
\* window keeps exactly its entries younger than WINDOW), leaves every other
\* window alone, puts one error on the sender's session and nothing anywhere
\* else, leaves the session in its receive loop, and at no later time changes
\* whether a send under that name would be accepted.
C9_Original ==
    [][(/\ IsSend(last')
        /\ Recent(WindowOf(message_rates, last'.name), now) >= MAX_MESSAGES_PER_MINUTE) =>
          LET w == WindowOf(message_rates, last'.name)
              v == WindowOf(message_rates', last'.name)
          IN  /\ v = SelectSeq(w, LAMBDA x : now - x < WINDOW)
              /\ \A m \in Names \ {last'.name} :
                    WindowOf(message_rates', m) = WindowOf(message_rates, m)
              /\ OnlyAnError(delivered', last'.s)
              /\ Got(delivered', last'.s, "ack") = 0
              /\ \A o \in Sessions \ {last'.s} : delivered'[o] = <<>>
              /\ agents' = agents
              /\ pc'[last'.s] = "loop" /\ chan'[last'.s] = "open"
              /\ last'.s \in connections'
              /\ \A t \in now..(now + WINDOW) :
                    (Recent(v, t) < MAX_MESSAGES_PER_MINUTE) <=>
                        (Recent(w, t) < MAX_MESSAGES_PER_MINUTE)]_vars

\* C10 (as claimed): the count in the ack handle_broadcast builds is the number
\* of recipients whose channel accepted the envelope.
C10_Original ==
    (last.op = "broadcast" /\ Got(handed, last.s, "ack") = 1) =>
        GotSeq(handed, last.s, "ack")[1].count =
            Cardinality({i \in 1..Len(agents) :
                            /\ agents[i].name # last.name
                            /\ Got(delivered, agents[i].websocket, "broadcast") >= 1})

\* how many records with a name other than from live on session ws
BroadcastsFor(ags, ws, from) ==
    Len(SelectSeq(ags, LAMBDA r : r.websocket = ws /\ r.name # from))

\* C11 (as claimed): a BROADCAST from F that passes validation and the rate
\* check is handed to send_message once per record whose name is not F (and
\* not for the record F), and F's session receives exactly one ack, whose
\* count is 0 when no other agent is registered.
C11_Original ==
    [][(/\ last'.op = "broadcast" /\ last'.name # "" /\ last'.content # ""
        /\ Recent(WindowOf(message_rates, last'.name), now) < MAX_MESSAGES_PER_MINUTE) =>
          /\ \A ws \in Sessions :
                Got(handed', ws, "broadcast") = BroadcastsFor(agents, ws, last'.name)
          /\ Got(delivered', last'.s, "ack") = 1
          /\ NameSet(agents) \subseteq {last'.name} =>
                GotSeq(delivered', last'.s, "ack")[1].count = 0]_vars

\* C12: no address holds more session ids in ip_connections than
\* MAX_CONNECTIONS_PER_IP, and no address is kept with an empty set.
C12_QuotaBounded ==
    \A ip \in DOMAIN ip_connections :
        /\ Cardinality(ip_connections[ip]) <= MAX_CONNECTIONS_PER_IP
        /\ ip_connections[ip] # {}

\* C12 witness: a session was released and took the entry of its address with
\* it, while the other address is at its cap.
C12_Witness ==
    /\ last.op = "release"
    /\ last.fault = ""
    /\ \E ip \in IPs : ip \notin DOMAIN ip_connections
    /\ \E ip \in DOMAIN ip_connections :
          Cardinality(ip_connections[ip]) = MAX_CONNECTIONS_PER_IP

\* the steps that dispatch a frame to a handler
FrameOps ==
    {"agent_register", "agent_deregister", "direct_message", "broadcast", "ping", "bad"}

\* C13: a connection from an address that already holds MAX_CONNECTIONS_PER_IP
\* sessions is refused: the session map and ip_connections stay as they were,
\* it is closed with code 1008 and handed or sent nothing; a refused
\* connection stays refused, and frames are dispatched only for sessions in
\* their receive loop.
C13_Refused ==
    [][/\ (/\ last'.op \in {"connect", "reject"}
            /\ last'.content \in DOMAIN ip_connections
            /\ Cardinality(ip_connections[last'.content]) >= MAX_CONNECTIONS_PER_IP) =>
              /\ last'.op = "reject"
              /\ connections' = connections
              /\ ip_connections' = ip_connections
              /\ last'.s \notin connections'
              /\ close_code'[last'.s] = POLICY_VIOLATION
              /\ pc'[last'.s] = "rejected"
              /\ handed'[last'.s] = <<>> /\ delivered'[last'.s] = <<>>
       /\ \A s \in Sessions : pc[s] = "rejected" =>
              /\ pc'[s] = "rejected"
              /\ handed'[s] = <<>> /\ delivered'[s] = <<>>
              /\ s \notin connections'
       /\ last'.op \in FrameOps => pc[last'.s] = "loop"]_vars

\* C13 witness: a connection was refused at an address holding its cap of
\* sessions, while a registered agent was there to talk to.
C13_Witness ==
    /\ last.op = "reject"
    /\ Cardinality(ip_connections[last.content]) = MAX_CONNECTIONS_PER_IP
    /\ close_code[last.s] = POLICY_VIOLATION
    /\ agents # <<>>

\* a session's channel took exactly one handshake reply of the given type
OnlyReply(d, s, type) == Len(d[s]) = 1 /\ d[s][1].type = type

\* C14 (as claimed): with a token configured, a session enters its receive
\* loop only by a first frame {type: "auth"} with the matching token, answered
\* with auth_success; frames are dispatched and the registry and the rate
\* windows change only for sessions in their loop; any other first frame, or
\* none within 30 seconds, is answered with auth_error and the session is
\* closed with 1008 and never enters its loop.
C14_Original ==
    [][api_token # "" =>
          /\ \A s \in Sessions : (pc[s] # "loop" /\ pc'[s] = "loop") =>
                /\ last' = Op("auth", s, "", "", "ok", "", "")
                /\ OnlyReply(delivered', s, "auth_success")
          /\ last'.op \in FrameOps => pc[last'.s] = "loop"
          /\ (agents' # agents \/ message_rates' # message_rates) =>
                pc[last'.s] = "loop"
          /\ (last'.op = "auth" /\ last'.content \in AuthKinds \ {"ok"}) =>
                /\ OnlyReply(delivered', last'.s, "auth_error")
                /\ close_code'[last'.s] = POLICY_VIOLATION
                /\ pc'[last'.s] = "done"
          /\ \A s \in Sessions : pc[s] = "done" => pc'[s] = "done"]_vars

\* C15 (as claimed): a frame that is not JSON, or whose type is unknown or one
\* of the output-only types, puts exactly one error on its sender's session and
\* nothing on any other, changes no registry, rate-window or quota state, and
\* leaves the session in its receive loop.
C15_Original ==
    [][last'.op = "bad" =>
          /\ OnlyAnError(delivered', last'.s)
          /\ \A o \in Sessions \ {last'.s} : delivered'[o] = <<>>
          /\ agents' = agents
          /\ message_rates' = message_rates
          /\ connections' = connections
          /\ ip_connections' = ip_connections
          /\ pc'[last'.s] = "loop" /\ chan'[last'.s] = "open"]_vars

\* the names a frame asks to remove from the registry
Removed(l) == IF l.op = "agent_deregister" THEN {l.name} ELSE {}

\* C16 (as claimed): whatever happens while a frame is handled (a send to a
\* closed channel, an exception inside the handler), the sender's session stays
\* admitted and in its receive loop and keeps the registrations it had, but
\* for a name the frame itself deregisters.
C16_Original ==
    [][last'.op \in FrameOps =>
          /\ last'.s \in connections'
          /\ pc'[last'.s] = "loop"
          /\ (HeldBy(agents, last'.s) \ Removed(last')) \subseteq HeldBy(agents', last'.s)]_vars

\* a session's channel, or send_message for it, has a system agent_joined for n
GotJoined(d, s, n) ==
    Len(SelectSeq(d[s], LAMBDA m :
            m.type = "system" /\ m.content = "agent_joined" /\ m.agent = n))

\* C17 (as claimed, read for the envelopes handed to send_message): when the
\* mirror raises during AGENT_REGISTER of N by session S, the record of N is
\* stored for S, an ack is built for S and an agent_joined event for N is
\* built for every other record.
C17_Original ==
    [][(last'.op = "agent_register" /\ last'.name # "" /\ last'.fault # "") =>
          /\ HolderOf(agents', last'.name) = last'.s
          /\ Got(handed', last'.s, "ack") = 1
          /\ \A i \in 1..Len(agents') :
                agents'[i].name # last'.name =>
                    GotJoined(handed', agents'[i].websocket, last'.name) >= 1]_vars

\* C18 (as claimed): on an AGENT_REGISTER of N by S that succeeds, S's session
\* receives exactly one ack, listing the registry's names at that moment (N
\* among them); every session receives one agent_joined event for N per
\* record other than N that lives on it (with its channel open), so none for
\* the record N.
C18_Original ==
    [][(/\ last'.op = "agent_register" /\ last'.name # "" /\ last'.fault = "") =>
          /\ Got(delivered', last'.s, "ack") = 1
          /\ GotSeq(delivered', last'.s, "ack")[1].names = get_all_agent_names(agents')
          /\ last'.name \in NameSet(agents')
          /\ \A ws \in Sessions :
                chan[ws] = "open" =>
                    GotJoined(delivered', ws, last'.name) =
                        BroadcastsFor(agents', ws, last'.name)]_vars

\* C19 (as claimed): AGENT_DEREGISTER of a registered name N removes N's record
\* and puts an agent_left event for N on the channel of every agent that
\* remains; of a name that is not registered it changes nothing and sends
\* agent_left to no one.
C19_Original ==
    [][(last'.op = "agent_deregister" /\ last'.name # "") =>
          IF HolderOf(agents, last'.name) # NoSession
          THEN /\ agents' = DictPop(agents, last'.name)
               /\ \A i \in 1..Len(agents') :
                     chan[agents'[i].websocket] = "open" =>
                         GotLeft(delivered', agents'[i].websocket, last'.name)
          ELSE /\ agents' = agents
               /\ message_rates' = message_rates
               /\ \A ws \in Sessions : ~GotLeft(handed', ws, last'.name)]_vars

\* C20 (as claimed): every PING puts exactly one pong, and nothing else, on
\* the sender's session, whatever from_agent is and whatever its rate window.
C20_Original ==
    [][last'.op = "ping" =>
          /\ Got(delivered', last'.s, "pong") = 1
          /\ Len(delivered'[last'.s]) = 1]_vars

\* the step handled a request with a required field absent or empty
MissingField(l) ==
    \/ l.op \in {"agent_register", "agent_deregister"} /\ l.name = ""
    \/ l.op = "direct_message" /\ (l.name = "" \/ l.to = "" \/ l.content = "")
    \/ l.op = "broadcast" /\ (l.name = "" \/ l.content = "")

\* C21 (as claimed): a request with a required field absent or empty puts
\* exactly one error on its sender's session and nothing on any other, changes
\* neither the registry nor any rate window, and leaves the session in its
\* receive loop.
C21_Original ==
    [][MissingField(last') =>
          /\ OnlyAnError(delivered', last'.s)
          /\ \A o \in Sessions \ {last'.s} : delivered'[o] = <<>>
          /\ agents' = agents
          /\ message_rates' = message_rates
          /\ pc'[last'.s] = "loop" /\ chan'[last'.s] = "open"
          /\ last'.s \in connections']_vars

\* C23 (as claimed): every envelope passed to send_message for a session whose
\* channel is open arrives there as one frame, in order, with its type one of
\* the nine strings of MessageType.
C23_Original ==
    \A s \in Sessions :
        chan[s] = "open" =>
            /\ Len(delivered[s]) >= Len(handed[s])
            /\ \A i \in 1..Len(handed[s]) : delivered[s][i] = handed[s][i]
            /\ \A i \in 1..Len(handed[s]) : handed[s][i].type \in MessageType

\* C24: every ack, error, system and pong envelope a handler passes to
\* send_message, and every one a channel accepts, has from = "bus".
C24_FromBus ==
    \A s \in Sessions :
        /\ \A i \in 1..Len(handed[s]) :
              handed[s][i].type \in {"ack", "error", "system", "pong"} =>
                  handed[s][i].from = "bus"
        /\ \A i \in 1..Len(delivered[s]) :
              delivered[s][i].type \in {"ack", "error", "system", "pong"} =>
                  delivered[s][i].from = "bus"

\* C24 witness: a registration was answered on its error path (the mirror
\* raised) while another agent was registered.
C24_Witness ==
    /\ last.op = "agent_register"
    /\ last.fault # ""
    /\ Got(handed, last.s, "error") = 1
    /\ \E i \in 1..Len(agents) : agents[i].websocket # last.s

\* C26 (as claimed): a session whose handshake failed or timed out is in
\* neither the session map nor any address's quota set, and an address whose
\* counted sessions have all closed is admitted again.
C26_Original ==
    [][/\ (last'.op = "auth" /\ last'.content # "ok") =>
              /\ last'.s \notin connections'
              /\ \A ip \in DOMAIN ip_connections' : last'.s \notin ip_connections'[ip]
       /\ (/\ last'.op \in {"connect", "reject"}
           /\ last'.content \in DOMAIN ip_connections
           /\ \A s \in ip_connections[last'.content] : chan[s] = "closed") =>
              last'.op = "connect"]_vars

\* C27 (as claimed): a broadcast that passes validation and the rate check
\* puts an ack on its sender's session, and is passed to send_message for
\* every record that is registered before and after it under a name other
\* than the sender's.
C27_Original ==
    [][(/\ last'.op = "broadcast" /\ IsSend(last')
        /\ Recent(WindowOf(message_rates, last'.name), now) < MAX_MESSAGES_PER_MINUTE) =>
          /\ Got(delivered', last'.s, "ack") >= 1
          /\ \A i \in 1..Len(agents) :
                (agents[i].name # last'.name /\ agents[i] \in {agents'[j] : j \in 1..Len(agents')})
                    => Got(handed', agents[i].websocket, "broadcast") >= 1]_vars

CountedAt(ipc, addr, s) == addr \in DOMAIN ipc /\ s \in ipc[addr]

\* C30: when a session registers a name held by another session S1, S1 stays
\* in the session map and in its address's quota set, with its task and its
\* channel as they were; and the release of a session leaves every record of
\* another session in place, resolving to the same session.
C30_OrphanedSession ==
    [][/\ (/\ last'.op = "agent_register" /\ last'.name # ""
           /\ HolderOf(agents, last'.name) \notin {NoSession, last'.s}) =>
              LET S1 == HolderOf(agents, last'.name) IN
              /\ S1 \in connections'
              /\ CountedAt(ip_connections', remote_address'[S1], S1)
              /\ pc'[S1] = pc[S1] /\ chan'[S1] = chan[S1]
       /\ last'.op = "release" =>
              \A n \in Names :
                  HolderOf(agents, n) \notin {NoSession, last'.s} =>
                      /\ HolderOf(agents', n) = HolderOf(agents, n)
                      /\ Records(agents', n) = 1]_vars

\* C30 witness: a session has taken over a name that another session held,
\* and that other session is still in its receive loop with its channel open.
C30_Witness ==
    /\ last.op = "agent_register"
    /\ last.note = "other"
    /\ HolderOf(agents, last.name) = last.s
    /\ \E s \in Sessions \ {last.s} :
          /\ pc[s] = "loop" /\ chan[s] = "open"
          /\ s \in connections
          /\ HeldBy(agents, s) = {}

\* the records a step took out of the registry
Dropped(ags, ags2) == {ags[i] : i \in {j \in 1..Len(ags) : ~\E k \in 1..Len(ags2) : ags2[k] = ags[j]}}

\* C28 (as claimed): a release removes only records whose session is the one
\* being released, under every interleaving: each stretch of
\* deregister_connection between two awaits takes out of the registry only
\* records on the closing session, so a record another session stored while
\* the release was waiting for a mirror delete is still there when it ends.
C28_Original ==
    [][last'.op = "release_step" =>
          \A r \in Dropped(agents, agents') : r.websocket = last'.s]_vars

\* the client's label carried by an envelope a frame caused ("" for none)
LabelOf(m) ==
    IF m.type = "direct_message" THEN m.content
    ELSE IF m.type = "ack" THEN m.cid ELSE ""

\* the envelopes of a channel that frames of session s caused, in channel order
CausedBy(q, s) ==
    SelectSeq(q, LAMBDA m : \E k \in 1..MaxFrames : LabelOf(m) = Label(s, k))

\* the envelopes frames of s caused are on the channel in the order s sent the
\* frames (one frame may put two there: its message and its ack)
InSendOrder(q, s) ==
    \A i \in 1..Len(CausedBy(q, s)), j \in 1..Len(CausedBy(q, s)) :
        i < j => \A a \in 1..MaxFrames, b \in 1..MaxFrames :
                    (LabelOf(CausedBy(q, s)[i]) = Label(s, a)
                        /\ LabelOf(CausedBy(q, s)[j]) = Label(s, b)) => a <= b

\* C22: the frames of one session are handled in arrival order: the k-th
\* frame the loop handles is the k-th the client sent, and on every channel the
\* envelopes that frames of one session caused (passed to send_message, and
\* accepted by the channel) stand in the order the session sent those frames.
C22_ArrivalOrder ==
    \A s \in Sessions :
        /\ \A k \in 1..Len(mailbox.handled[s]) : mailbox.handled[s][k] = k
        /\ \A w \in Sessions :
              /\ InSendOrder(mailbox.stream[w], s)
              /\ InSendOrder(mailbox.arrived[w], s)

\* C22 witness: two frames of one session have been handled, and each caused
\* a direct_message envelope for the same target session.
C22_Witness ==
    \E s \in Sessions, w \in Sessions :
        /\ mailbox.handled[s] = <<1, 2>>
        /\ Len(SelectSeq(CausedBy(mailbox.stream[w], s),
                         LAMBDA m : m.type = "direct_message")) = 2

\* C25 (as claimed): fed the same connects with a name, forwards to a named
\* target and disconnects, the relay's name -> session map gives for every
\* name the session the registry of the bus gives, and whenever the relay
\* forwards a message to a session the bus has a direct_message for that
\* session too.
C25_Original ==
    [][/\ \A n \in Names : relay_lookup(relay', n) = HolderOf(agents', n)
       /\ last'.op = "direct_message" =>
              \A w \in Sessions :
                  relay'.sent[w] # <<>> => Got(handed', w, "direct_message") = 1]_vars

\* C31: no rate window ever holds more than MAX_MESSAGES_PER_MINUTE
\* timestamps, and right after a send under a name has gone through the rate
\* check at time now, every timestamp kept for that name is strictly later
\* than now - WINDOW.
C31_WindowBounded ==
    [][/\ \A n \in DOMAIN message_rates' :
              Len(message_rates'[n]) <= MAX_MESSAGES_PER_MINUTE
       /\ IsSend(last') =>
              /\ last'.name \in DOMAIN message_rates'
              /\ \A i \in 1..Len(message_rates'[last'.name]) :
                     message_rates'[last'.name][i] > now' - WINDOW]_vars

\* C31 witness: a send was checked a full WINDOW after the clock started,
\* under a name that had sends recorded before, and its window is at the
\* threshold with nothing as old as WINDOW in it.
C31_Witness ==
    /\ IsSend(last)
    /\ now >= WINDOW
    /\ Len(WindowOf(message_rates, last.name)) = MAX_MESSAGES_PER_MINUTE
    /\ \E i \in 1..Len(WindowOf(message_rates, last.name)) :
           WindowOf(message_rates, last.name)[i] < now

\* send_message was called for a session with an error of the given text
ErrorFor(d, s, text) ==
    \E i \in 1..Len(d[s]) : d[s][i].type = "error" /\ d[s][i].content = text

\* C32: a DIRECT_MESSAGE that passes the rate check and is then rejected
\* because to_agent is not registered has taken a slot in from_agent's window
\* (the window is its recent entries plus now), and a send under a name whose
\* window already holds MAX_MESSAGES_PER_MINUTE recent entries, however they
\* got there, is answered with "Rate limit exceeded" and forwarded to nobody.
C32_RejectedCounts ==
    [][/\ (/\ last'.op = "direct_message" /\ IsSend(last')
           /\ HolderOf(agents, last'.to) = NoSession
           /\ Recent(WindowOf(message_rates, last'.name), now)
                  < MAX_MESSAGES_PER_MINUTE) =>
              /\ WindowOf(message_rates', last'.name) =
                     Append(SelectSeq(WindowOf(message_rates, last'.name),
                                      LAMBDA x : now - x < WINDOW), now)
              /\ ErrorFor(handed', last'.s, "Agent not found")
              /\ \A o \in Sessions \ {last'.s} : handed'[o] = <<>>
       /\ (/\ IsSend(last')
           /\ Recent(WindowOf(message_rates, last'.name), now)
                  >= MAX_MESSAGES_PER_MINUTE) =>
              /\ ErrorFor(handed', last'.s, "Rate limit exceeded")
              /\ Len(handed'[last'.s]) = 1
              /\ \A o \in Sessions \ {last'.s} : handed'[o] = <<>>]_vars

\* C32 witness: no agent has registered, so every direct message so far was
\* rejected as "not found"; the window of the name is at the threshold and the
\* direct message just handled was refused for rate limiting.
C32_Witness ==
    /\ last.op = "direct_message"
    /\ agents = <<>>
    /\ Len(WindowOf(message_rates, last.name)) = MAX_MESSAGES_PER_MINUTE
    /\ ErrorFor(handed, last.s, "Rate limit exceeded")

\* C33: a PING leaves the registry (names and sessions), the rate windows, the
\* connections and the per-address sets as they were; of the last_ping stamps
\* it changes at most the one of the record named from_agent, which becomes
\* now when that record exists, and it creates no record and no stamp.
C33_PingEffect ==
    [][last'.op = "ping" =>
          /\ agents' = agents
          /\ message_rates' = message_rates
          /\ connections' = connections
          /\ ip_connections' = ip_connections
          /\ DOMAIN last_ping' = DOMAIN last_ping
          /\ DOMAIN last_ping' = NameSet(agents')
          /\ \A n \in DOMAIN last_ping :
                 last_ping'[n] = IF n = last'.name THEN now ELSE last_ping[n]]_vars

\* C33 witness: a ping for a registered name has just been handled at a time
\* after the clock moved, its record carries the time of the ping, and
\* another record still carries an older stamp.
C33_Witness ==
    /\ last.op = "ping"
    /\ last.name \in DOMAIN last_ping
    /\ now > 0
    /\ last_ping[last.name] = now
    /\ \E n \in DOMAIN last_ping : last_ping[n] < now

\* C34 (as claimed): the teardown of a session that held a registered name
\* takes the session out of connections and out of the set of its address,
\* whether or not the mirror's hdel raised on the way.
C34_Original ==
    [][(last'.op = "release" /\ HeldBy(agents, last'.s) # {}) =>
          /\ last'.s \notin connections'
          /\ \A ip \in DOMAIN ip_connections' : last'.s \notin ip_connections'[ip]]_vars

\* C35 (as claimed): whenever the bus hands on a direct_message or broadcast
\* envelope with from = A, or records a send in A's rate window, the frame came
\* in on the session that holds the registration of A.
C35_Original ==
    [][(/\ IsSend(last')
        /\ \/ \E w \in Sessions :
                  Got(handed', w, "direct_message") + Got(handed', w, "broadcast") > 0
           \/ WindowOf(message_rates', last'.name) # WindowOf(message_rates, last'.name)) =>
          HolderOf(agents, last'.name) = last'.s]_vars

\* C36 (as claimed): the record of a name N leaves the registry only in a step
\* that is an AGENT_DEREGISTER for N on the session holding N, the release of
\* that session, or an AGENT_REGISTER for N; in particular an AGENT_DEREGISTER
\* for N that arrives on another session leaves N with its holder.
C36_Original ==
    [][\A n \in Names :
          (HolderOf(agents, n) # NoSession /\ HolderOf(agents', n) # HolderOf(agents, n)) =>
              \/ last'.op = "agent_deregister" /\ last'.name = n
                     /\ last'.s = HolderOf(agents, n)
              \/ last'.op = "release" /\ last'.s = HolderOf(agents, n)
              \/ last'.op = "agent_register" /\ last'.name = n]_vars

\* C37 (as claimed): in the minimal relay, a forward to a target whose
\* websocket is closed leaves the sender's handler in its loop and the
\* sender's name in the connected map.
C37_Original ==
    [][(/\ last'.op = "direct_message"
        /\ relay.task[last'.s] = "loop"
        /\ last'.to \in DOMAIN relay.connected
        /\ chan[relay.connected[last'.to]] = "closed") =>
          /\ relay'.task[last'.s] = "loop"
          /\ relay.name[last'.s] \in DOMAIN relay.connected =>
                 relay.name[last'.s] \in DOMAIN relay'.connected]_vars

\* C38 (as claimed): under every interleaving of concurrent requests and key
\* expiry, the rate_limit counter of an address, when it is in the store,
\* carries an expiry and is at most calls.
C38_Original ==
    /\ rest.val > 0 => rest.ttl > 0
    /\ rest.val <= REST_CALLS
====
